---- MODULE Spec2Model ----
(***************************************************************************)
(* The inference gateway of src/index.js: the three POST handlers          *)
(* /summarize, /detect-ai and /generate, each a single-shot request /      *)
(* outbound call / response cycle.                                         *)
(*                                                                         *)
(* JavaScript values are tagged records, so that values of different       *)
(* JavaScript types are never compared as TLA+ values of different kinds:  *)
(*   [type |-> "undefined"]           undefined (also: an absent property) *)
(*   [type |-> "null"]                null                                 *)
(*   [type |-> "string", str |-> s]   a string                             *)
(*   [type |-> "number", num |-> n]   the number n / 1000 (fixed point)    *)
(*   [type |-> "array",  items |-> q] an array, q the sequence of items    *)
(*   [type |-> "object", props |-> q] an object, q its <<key, value>>      *)
(*                                    pairs in insertion order             *)
(*   [type |-> "bytes",  bytes |-> s] a Buffer / ArrayBuffer holding s     *)
(***************************************************************************)
EXTENDS Integers, Sequences, FiniteSets, TLC

VARIABLES pc, req, outbound, up, res

vars == <<pc, req, outbound, up, res>>

(***************************************************************************)
(* Bounds of the model.                                                    *)
(***************************************************************************)
\* requests handled concurrently (ConcSpec)
NReq == 3
\* modelIndex ranges over -1 .. MaxIndex
MaxIndex == 2
\* longest array in an upstream JSON response
MaxList == 2

Reqs == 1..NReq

(***************************************************************************)
(* JavaScript values.                                                      *)
(***************************************************************************)
Undefined == [type |-> "undefined"]
JNull == [type |-> "null"]
JStr(s) == [type |-> "string", str |-> s]
JNum(n) == [type |-> "number", num |-> n]
JInt(i) == JNum(i * 1000)
JArr(q) == [type |-> "array", items |-> q]
JObj(q) == [type |-> "object", props |-> q]
JBytes(s) == [type |-> "bytes", bytes |-> s]

IsNullish(j) == j.type \in {"undefined", "null"}

\* ToBoolean: what `!x`, `x && y`, `x || y`, `x ? a : b` test.
TruthyEmptyStringToo(j) ==
  CASE j.type \in {"undefined", "null"} -> FALSE
    [] j.type = "number" -> j.num # 0
    [] OTHER -> TRUE

Truthy(j) ==
  CASE j.type \in {"undefined", "null"} -> FALSE
    [] j.type = "string" -> j.str # ""
    [] j.type = "number" -> j.num # 0
    [] OTHER -> TRUE

\* j.k / j[k] for a name k, on a value that is neither null nor undefined.
Prop(j, k) ==
  IF j.type = "object" /\ \E i \in 1..Len(j.props) : j.props[i][1] = k
  THEN LET last == CHOOSE i \in 1..Len(j.props) :
                     /\ j.props[i][1] = k
                     /\ \A m \in (i + 1)..Len(j.props) : j.props[m][1] # k
       IN  j.props[last][2]
  ELSE Undefined

\* j?.k
OptProp(j, k) == IF IsNullish(j) THEN Undefined ELSE Prop(j, k)

\* j[0], on a value that is neither null nor undefined.
Index0(j) ==
  CASE j.type = "array" -> IF Len(j.items) > 0 THEN j.items[1] ELSE Undefined
    [] j.type = "string" -> IF Len(j.str) > 0 THEN JStr(SubSeq(j.str, 1, 1)) ELSE Undefined
    [] OTHER -> Prop(j, "0")

(***************************************************************************)
(* Strings.                                                                *)
(***************************************************************************)
UpperCase == <<"A", "B", "C", "D", "E", "F", "G", "H", "I", "J", "K", "L", "M",
               "N", "O", "P", "Q", "R", "S", "T", "U", "V", "W", "X", "Y", "Z">>
LowerCase == <<"a", "b", "c", "d", "e", "f", "g", "h", "i", "j", "k", "l", "m",
               "n", "o", "p", "q", "r", "s", "t", "u", "v", "w", "x", "y", "z">>

LowerChar(c) ==
  IF \E i \in 1..Len(UpperCase) : UpperCase[i] = c
  THEN LowerCase[CHOOSE i \in 1..Len(UpperCase) : UpperCase[i] = c]
  ELSE c

RECURSIVE ToLowerCase(_)
ToLowerCase(s) ==
  IF s = "" THEN ""
  ELSE LowerChar(SubSeq(s, 1, 1)) \o ToLowerCase(SubSeq(s, 2, Len(s)))

\* String.prototype.includes
Includes(s, sub) ==
  \E i \in 1..(Len(s) - Len(sub) + 1) : SubSeq(s, i, i + Len(sub) - 1) = sub

\* Number to string, for numbers with at most three decimals.
RECURSIVE StripZeros(_)
StripZeros(d) ==
  IF d # "" /\ SubSeq(d, Len(d), Len(d)) = "0"
  THEN StripZeros(SubSeq(d, 1, Len(d) - 1))
  ELSE d

NumToString(n) ==
  LET a == IF n < 0 THEN -n ELSE n
      whole == ToString(a \div 1000)
      f == a % 1000
      digits == StripZeros(ToString(f \div 100) \o ToString((f \div 10) % 10) \o ToString(f % 10))
  IN  (IF n < 0 THEN "-" ELSE "") \o whole \o (IF digits = "" THEN "" ELSE "." \o digits)

\* JSON.stringify of a JSON value.
RECURSIVE Stringify(_)
RECURSIVE StringifyItems(_, _)
RECURSIVE StringifyProps(_, _)
Stringify(j) ==
  CASE j.type = "null" -> "null"
    [] j.type = "string" -> "\"" \o j.str \o "\""
    [] j.type = "number" -> NumToString(j.num)
    [] j.type = "array" -> "[" \o StringifyItems(j.items, 1) \o "]"
    [] j.type = "object" -> "{" \o StringifyProps(j.props, 1) \o "}"

StringifyItems(q, i) ==
  IF i > Len(q) THEN ""
  ELSE Stringify(q[i]) \o (IF i < Len(q) THEN "," ELSE "") \o StringifyItems(q, i + 1)

StringifyProps(q, i) ==
  IF i > Len(q) THEN ""
  ELSE "\"" \o q[i][1] \o "\":" \o Stringify(q[i][2])
       \o (IF i < Len(q) THEN "," ELSE "") \o StringifyProps(q, i + 1)

\* `${x}`
TemplateString(j) ==
  CASE j.type = "undefined" -> "undefined"
    [] j.type = "null" -> "null"
    [] j.type = "string" -> j.str
    [] j.type = "number" -> NumToString(j.num)
    [] OTHER -> "[object]"

(***************************************************************************)
(* Responses of the handlers (res.status(..).json(..), res.send(..)).      *)
(***************************************************************************)
NoReply == [status |-> 0]

\* res.status(status).json(obj)
JsonReply(status, obj) ==
  [status |-> status, contentType |-> "application/json; charset=utf-8", body |-> obj]

\* res.setHeader("Content-Type", contentType); res.send(buffer)
BinaryReply(contentType, buffer) ==
  [status |-> 200, contentType |-> contentType, body |-> buffer]

(***************************************************************************)
(* axios.post: the promise resolves with the response, or rejects with an  *)
(* error that carries the response when the status failed validateStatus   *)
(* and no response when the transport failed.                              *)
(***************************************************************************)
ThrownError(message) == [hasResponse |-> FALSE, data |-> Undefined, message |-> message]

\* axios' default validateStatus
DefaultValidateStatus(status) == status >= 200 /\ status < 300

\* anyStatus: the call was made with validateStatus: () => true
AxiosPost(u, anyStatus) ==
  IF u.kind = "transport"
  THEN [ok |-> FALSE, error |-> ThrownError(u.message)]
  ELSE IF anyStatus \/ DefaultValidateStatus(u.status)
       THEN [ok |-> TRUE, error |-> ThrownError("")]
       ELSE [ok |-> FALSE,
             error |-> [hasResponse |-> TRUE, data |-> u.data,
                        message |-> "Request failed with status code " \o ToString(u.status)]]

\* error.response?.data || error.message
ErrorDetails(err) ==
  IF err.hasResponse /\ Truthy(err.data) THEN err.data ELSE JStr(err.message)

HuggingFaceUrl(model) == "https://api-inference.huggingface.co/models/" \o model

OutboundCall(model, inputs) == [url |-> HuggingFaceUrl(model), inputs |-> inputs]

(***************************************************************************)
(* POST /summarize                                                         *)
(***************************************************************************)
SUMMARIZATION_MODELS == <<"facebook/bart-large-cnn", "mistralai/Mixtral-8x7B-v0.1">>

\* array[key] for a number key
ArrayGetWrapping(arr, key) ==
  IF key.type = "number" /\ key.num % 1000 = 0
  THEN JStr(arr[((key.num \div 1000) % Len(arr)) + 1])
  ELSE Undefined

ArrayGet(arr, key) ==
  IF key.type = "number" /\ key.num % 1000 = 0
     /\ key.num \div 1000 >= 0 /\ key.num \div 1000 < Len(arr)
  THEN JStr(arr[(key.num \div 1000) + 1])
  ELSE Undefined

\* const { text, modelIndex = 0 } = req.body
ModelIndexOf(body) ==
  IF Prop(body, "modelIndex") = Undefined THEN JInt(0) ELSE Prop(body, "modelIndex")

\* a module-level selectedModel, overwritten by whichever request arrived last
SelectedModelShared(body) ==
  LET others == {q \in Reqs : /\ pc[q] = "awaiting"
                              /\ req[q].route = "summarize"
                              /\ req[q].body # body}
  IN  IF others = {}
      THEN ArrayGet(SUMMARIZATION_MODELS, ModelIndexOf(body))
      ELSE ArrayGet(SUMMARIZATION_MODELS, ModelIndexOf(req[CHOOSE q \in others : TRUE].body))

\* const selectedModel = SUMMARIZATION_MODELS[modelIndex]
SelectedModel(body) == ArrayGet(SUMMARIZATION_MODELS, ModelIndexOf(body))

\* the early returns before the outbound call
SummarizeEarly(body) ==
  IF ~Truthy(Prop(body, "text"))
  THEN JsonReply(400, JObj(<< <<"error", JStr("Missing 'text' in request body")>> >>))
  ELSE IF ~Truthy(SelectedModel(body))
       THEN JsonReply(400, JObj(<< <<"error",
              JStr("Invalid model index '" \o TemplateString(ModelIndexOf(body)) \o "'.")>> >>))
       ELSE NoReply

SummarizeCatch(err) ==
  JsonReply(500, JObj(<< <<"error", JStr("Failed to summarize text")>>,
                         <<"details", ErrorDetails(err)>> >>))

\* the summary picked out of response.data
ExtractSummary(data) ==
  LET first == Index0(data)
  IN  IF Truthy(OptProp(first, "summary_text")) THEN OptProp(first, "summary_text")
      ELSE IF Truthy(OptProp(first, "generated_text")) THEN OptProp(first, "generated_text")
      ELSE JStr(Stringify(data))

\* the handler from the await to the response
SummarizeReply(body, u) ==
  LET out == AxiosPost(u, FALSE)
  IN  IF ~out.ok THEN SummarizeCatch(out.error)
      ELSE IF IsNullish(u.data)
           THEN SummarizeCatch(ThrownError("Cannot read properties of null (reading '0')"))
           ELSE JsonReply(200, JObj(<< <<"model", SelectedModel(body)>>,
                                       <<"summary", ExtractSummary(u.data)>> >>))

Summarize(r, body) ==
  /\ pc[r] = "idle"
  /\ req' = [req EXCEPT ![r] = [route |-> "summarize", body |-> body]]
  /\ IF SummarizeEarly(body) # NoReply
     THEN /\ res' = [res EXCEPT ![r] = SummarizeEarly(body)]
          /\ pc' = [pc EXCEPT ![r] = "done"]
          /\ UNCHANGED outbound
     ELSE /\ outbound' = [outbound EXCEPT ![r] =
                 Append(@, OutboundCall(SelectedModel(body).str, Prop(body, "text")))]
          /\ pc' = [pc EXCEPT ![r] = "awaiting"]
          /\ UNCHANGED res
  /\ UNCHANGED up

SummarizeResume(r, u) ==
  /\ pc[r] = "awaiting"
  /\ req[r].route = "summarize"
  /\ up' = [up EXCEPT ![r] = u]
  /\ res' = [res EXCEPT ![r] = SummarizeReply(req[r].body, u)]
  /\ pc' = [pc EXCEPT ![r] = "done"]
  /\ UNCHANGED <<req, outbound>>

(***************************************************************************)
(* POST /detect-ai                                                         *)
(***************************************************************************)
DETECTOR_MODEL == "Hello-SimpleAI/chatgpt-detector-roberta"

DetectEarly(body) ==
  IF ~Truthy(Prop(body, "text"))
  THEN JsonReply(400, JObj(<< <<"error", JStr("Missing 'text' in request body")>> >>))
  ELSE NoReply

DetectCatch(err) ==
  JsonReply(500, JObj(<< <<"error", JStr("Failed to detect AI content")>>,
                         <<"details", ErrorDetails(err)>> >>))

\* label.toLowerCase().includes("ai"), compared without lowering the label
IsAiLabelCaseSensitive(label) == Includes(label, "ai")

\* label.toLowerCase().includes("ai")
IsAiLabel(label) == Includes(ToLowerCase(label), "ai")

\* e.label.toLowerCase() throws unless e.label is a string
LabelThrows(e) == IsNullish(e) \/ Prop(e, "label").type # "string"

\* the index of the entry output.find(..) returns, 0 when it returns undefined
FindAiEntry(items) ==
  IF \E i \in 1..Len(items) : ~LabelThrows(items[i]) /\ IsAiLabel(Prop(items[i], "label").str)
  THEN CHOOSE i \in 1..Len(items) :
         /\ ~LabelThrows(items[i]) /\ IsAiLabel(Prop(items[i], "label").str)
         /\ \A m \in 1..(i - 1) :
              LabelThrows(items[m]) \/ ~IsAiLabel(Prop(items[m], "label").str)
  ELSE 0

\* the callback of find throws on an entry visited before the search stops
FindThrows(items) ==
  \E i \in 1..Len(items) :
    /\ LabelThrows(items[i])
    /\ (FindAiEntry(items) = 0 \/ i < FindAiEntry(items))

\* aiEntry ? aiEntry.score : 0, with 1 where the code has 0
ArrayAiScoreDefaultOne(items) ==
  IF FindAiEntry(items) # 0 THEN Prop(items[FindAiEntry(items)], "score").num ELSE 1000

\* aiEntry ? aiEntry.score : 0
ArrayAiScore(items) ==
  IF FindAiEntry(items) # 0 THEN Prop(items[FindAiEntry(items)], "score").num ELSE 0

\* aiScore (in thousandths) for output = response.data[0]
AiScore(output) ==
  IF output.type = "array" THEN ArrayAiScore(output.items)
  ELSE IF Truthy(OptProp(output, "label")) /\ OptProp(output, "score") # Undefined
       THEN IF IsAiLabel(Prop(output, "label").str)
            THEN Prop(output, "score").num
            ELSE 1000 - Prop(output, "score").num
       ELSE 0

\* a TypeError is thrown between the await and res.json
DetectThrows(data) ==
  \/ IsNullish(data)
  \/ /\ Index0(data).type = "array"
     /\ FindThrows(Index0(data).items)
  \/ /\ Index0(data).type # "array"
     /\ Truthy(OptProp(Index0(data), "label"))
     /\ OptProp(Index0(data), "score") # Undefined
     /\ Prop(Index0(data), "label").type # "string"

\* Math.round(aiScore * 100), aiScore in thousandths
Confidence(aiScore) == (aiScore + 5) \div 10

Verdict(aiScore) ==
  IF aiScore > 500 THEN "Likely AI-generated" ELSE "Likely human-written"

DetectReply(body, u) ==
  LET out == AxiosPost(u, FALSE)
  IN  IF ~out.ok THEN DetectCatch(out.error)
      ELSE IF DetectThrows(u.data)
           THEN DetectCatch(ThrownError("TypeError"))
           ELSE JsonReply(200, JObj(<< <<"model", JStr(DETECTOR_MODEL)>>,
                    <<"confidence", JInt(Confidence(AiScore(Index0(u.data))))>>,
                    <<"verdict", JStr(Verdict(AiScore(Index0(u.data))))>> >>))

DetectAI(r, body) ==
  /\ pc[r] = "idle"
  /\ req' = [req EXCEPT ![r] = [route |-> "detect-ai", body |-> body]]
  /\ IF DetectEarly(body) # NoReply
     THEN /\ res' = [res EXCEPT ![r] = DetectEarly(body)]
          /\ pc' = [pc EXCEPT ![r] = "done"]
          /\ UNCHANGED outbound
     ELSE /\ outbound' = [outbound EXCEPT ![r] =
                 Append(@, OutboundCall(DETECTOR_MODEL, Prop(body, "text")))]
          /\ pc' = [pc EXCEPT ![r] = "awaiting"]
          /\ UNCHANGED res
  /\ UNCHANGED up

DetectAIResume(r, u) ==
  /\ pc[r] = "awaiting"
  /\ req[r].route = "detect-ai"
  /\ up' = [up EXCEPT ![r] = u]
  /\ res' = [res EXCEPT ![r] = DetectReply(req[r].body, u)]
  /\ pc' = [pc EXCEPT ![r] = "done"]
  /\ UNCHANGED <<req, outbound>>

(***************************************************************************)
(* POST /generate                                                          *)
(***************************************************************************)
IMAGE_MODEL == "black-forest-labs/FLUX.1-schnell"

\* a handler that also rejects a modelIndex other than that of the one model
GenerateEarlyChecksIndex(body) ==
  IF ~Truthy(Prop(body, "prompt")) \/ ModelIndexOf(body) # JInt(0)
  THEN JsonReply(400, JObj(<< <<"error", JStr("Missing prompt")>> >>))
  ELSE NoReply

\* const { prompt } = req.body; if (!prompt) return res.status(400)...
GenerateEarly(body) ==
  IF ~Truthy(Prop(body, "prompt"))
  THEN JsonReply(400, JObj(<< <<"error", JStr("Missing prompt")>> >>))
  ELSE NoReply

GenerateCatch == JsonReply(500, JObj(<< <<"error", JStr("Failed to generate image")>> >>))

\* the JSON documents an upstream body may hold
JsonDocuments ==
  {JObj(<< <<"error", e>> >>) :
     e \in {JStr("Model black-forest-labs/FLUX.1-schnell is currently loading"),
            JStr("Rate limit reached"),
            JStr(""),
            JInt(503),
            JObj(<< <<"message", JStr("Internal error")>> >>),
            JArr(<<JStr("Input is too long")>>)}}
  \cup {JObj(<<>>), JNull}

SyntaxError == [type |-> "SyntaxError"]

\* JSON.parse(Buffer.from(response.data).toString("utf8"))
JSONparse(text) ==
  IF \E j \in JsonDocuments : Stringify(j) = text
  THEN CHOOSE j \in JsonDocuments : Stringify(j) = text
  ELSE SyntaxError

\* contentType && contentType.includes("application/json")
IsJsonContentType(contentType) ==
  Truthy(contentType) /\ Includes(contentType.str, "application/json")

\* json.error?.includes("loading") throws: includes is not a function
IncludesThrows(e) == e.type \in {"number", "object"}

\* json.error?.includes("loading")
ErrorIsLoading(e) ==
  CASE e.type = "string" -> Includes(e.str, "loading")
    [] e.type = "array" -> \E i \in 1..Len(e.items) : e.items[i] = JStr("loading")
    [] OTHER -> FALSE

LoadingReply ==
  JsonReply(503, JObj(<< <<"status", JStr("loading")>>,
     <<"message", JStr("Model is starting on Hugging Face - please retry in 30-60 seconds.")>> >>))

\* the branch taken for a JSON content-type
GenerateJsonReply(json) ==
  IF json = SyntaxError \/ IsNullish(json) THEN GenerateCatch
  ELSE IF IncludesThrows(Prop(json, "error")) THEN GenerateCatch
  ELSE IF ErrorIsLoading(Prop(json, "error")) THEN LoadingReply
  ELSE JsonReply(500, JObj(<< <<"error",
         IF Truthy(Prop(json, "error")) THEN Prop(json, "error") ELSE JStr("Unknown error")>> >>))

GenerateReply(body, u) ==
  LET out == AxiosPost(u, TRUE)
  IN  IF ~out.ok THEN GenerateCatch
      ELSE IF IsJsonContentType(u.contentType)
           THEN GenerateJsonReply(JSONparse(u.data.bytes))
           ELSE BinaryReply("image/png", JBytes(u.data.bytes))

Generate(r, body) ==
  /\ pc[r] = "idle"
  /\ req' = [req EXCEPT ![r] = [route |-> "generate", body |-> body]]
  /\ IF GenerateEarly(body) # NoReply
     THEN /\ res' = [res EXCEPT ![r] = GenerateEarly(body)]
          /\ pc' = [pc EXCEPT ![r] = "done"]
          /\ UNCHANGED outbound
     ELSE /\ outbound' = [outbound EXCEPT ![r] =
                 Append(@, OutboundCall(IMAGE_MODEL, Prop(body, "prompt")))]
          /\ pc' = [pc EXCEPT ![r] = "awaiting"]
          /\ UNCHANGED res
  /\ UNCHANGED up

GenerateResume(r, u) ==
  /\ pc[r] = "awaiting"
  /\ req[r].route = "generate"
  /\ up' = [up EXCEPT ![r] = u]
  /\ res' = [res EXCEPT ![r] = GenerateReply(req[r].body, u)]
  /\ pc' = [pc EXCEPT ![r] = "done"]
  /\ UNCHANGED <<req, outbound>>

(***************************************************************************)
(* Inputs: request bodies and upstream responses.                          *)
(***************************************************************************)
SeqsUpTo(S, n) == UNION {[1..k -> S] : k \in 0..n}

FieldValues == {Undefined, JStr(""), JStr("The quick brown fox")}

IndexValues == {Undefined} \cup {JInt(i) : i \in -1..MaxIndex}

MkBody(field, v, m) ==
  JObj((IF v = Undefined THEN <<>> ELSE << <<field, v>> >>)
       \o (IF m = Undefined THEN <<>> ELSE << <<"modelIndex", m>> >>))

SummarizeBodies == {MkBody("text", v, m) : v \in FieldValues, m \in IndexValues}

HttpStatuses == {200, 503}

TransportFailure == [kind |-> "transport", message |-> "connect ECONNREFUSED"]

Http(status, contentType, data) ==
  [kind |-> "http", status |-> status, contentType |-> contentType, data |-> data]

SummaryItems ==
  {JObj((IF s = "-" THEN <<>> ELSE << <<"summary_text", JStr(s)>> >>)
        \o (IF g = "-" THEN <<>> ELSE << <<"generated_text", JStr(g)>> >>)) :
     s \in {"-", "", "X"}, g \in {"-", "Y"}}
  \cup {JObj(<< <<"foo", JInt(1)>> >>), JNull}

SummaryPayloads ==
  {JArr(q) : q \in SeqsUpTo(SummaryItems, MaxList)}
  \cup SummaryItems \cup {JStr(""), JStr("plain text")}

SummarizeUpstreams ==
  {TransportFailure}
  \cup {Http(s, JStr("application/json"), d) : s \in HttpStatuses, d \in SummaryPayloads}

DetectBodies == {MkBody("text", v, Undefined) : v \in FieldValues}

Labels == {"AI", "Human", "Fake", "Real"}

\* scores in thousandths
Scores == {500, 875, 900}

LabelScore(label, score) == JObj(<< <<"label", JStr(label)>>, <<"score", JNum(score)>> >>)

DetectorEntries == {LabelScore(l, s) : l \in Labels, s \in Scores}

DetectorPayloads ==
  {JArr(<<JArr(q)>>) : q \in SeqsUpTo(DetectorEntries, MaxList)}
  \cup {JArr(q) : q \in SeqsUpTo(DetectorEntries, MaxList)}
  \cup DetectorEntries \cup {JNull}

DetectUpstreams ==
  {TransportFailure}
  \cup {Http(s, JStr("application/json"), d) : s \in HttpStatuses, d \in DetectorPayloads}

GenerateBodies == {MkBody("prompt", v, m) : v \in FieldValues, m \in IndexValues}

ContentTypes ==
  {Undefined, JStr("application/json"), JStr("application/json; charset=utf-8"),
   JStr("image/png"), JStr("image/jpeg"), JStr("text/html")}

WireBodies ==
  {Stringify(j) : j \in JsonDocuments}
  \cup {"{\"error\":", "<89>PNG<0d0a1a0a>IHDR", "<html>502 Bad Gateway</html>"}

GenerateUpstreams ==
  {TransportFailure}
  \cup {Http(s, c, JBytes(b)) : s \in HttpStatuses, c \in ContentTypes, b \in WireBodies}

\* the requests and upstream responses of the concurrent specification
ConcSummarizeBodies ==
  {MkBody("text", JStr("The quick brown fox"), m) : m \in {Undefined, JInt(1)}}
  \cup {MkBody("text", Undefined, Undefined)}

ConcSummarizeUpstreams ==
  {TransportFailure,
   Http(200, JStr("application/json"), JArr(<<JObj(<< <<"summary_text", JStr("X")>> >>)>>))}

ConcDetectBodies == {MkBody("text", JStr("The quick brown fox"), Undefined)}

ConcDetectUpstreams ==
  {Http(200, JStr("application/json"), JArr(<<JArr(<<LabelScore("AI", 900)>>)>>)),
   Http(503, JStr("application/json"), JObj(<< <<"error", JStr("Rate limit reached")>> >>))}

ConcGenerateBodies == {MkBody("prompt", JStr("The quick brown fox"), Undefined)}

ConcGenerateUpstreams ==
  {Http(200, JStr("image/png"), JBytes("<89>PNG<0d0a1a0a>IHDR")),
   Http(200, JStr("application/json"), JBytes(Stringify(JObj(<< <<"error",
       JStr("Model black-forest-labs/FLUX.1-schnell is currently loading")>> >>))))}

Init ==
  /\ pc = [r \in Reqs |-> "idle"]
  /\ req = [r \in Reqs |-> [route |-> "none"]]
  /\ outbound = [r \in Reqs |-> <<>>]
  /\ up = [r \in Reqs |-> [kind |-> "none"]]
  /\ res = [r \in Reqs |-> NoReply]

\* one request, over every request body and every upstream response
Next ==
  \/ \E body \in SummarizeBodies : Summarize(1, body)
  \/ \E u \in SummarizeUpstreams : SummarizeResume(1, u)
  \/ \E body \in DetectBodies : DetectAI(1, body)
  \/ \E u \in DetectUpstreams : DetectAIResume(1, u)
  \/ \E body \in GenerateBodies : Generate(1, body)
  \/ \E u \in GenerateUpstreams : GenerateResume(1, u)

Spec == Init /\ [][Next]_vars

\* every slot handles a request, in any interleaving
ConcNext ==
  \E r \in Reqs :
    \/ \E body \in ConcSummarizeBodies : Summarize(r, body)
    \/ \E u \in ConcSummarizeUpstreams : SummarizeResume(r, u)
    \/ \E body \in ConcDetectBodies : DetectAI(r, body)
    \/ \E u \in ConcDetectUpstreams : DetectAIResume(r, u)
    \/ \E body \in ConcGenerateBodies : Generate(r, body)
    \/ \E u \in ConcGenerateUpstreams : GenerateResume(r, u)

ConcSpec == Init /\ [][ConcNext]_vars

(***************************************************************************)
(* The claims.                                                             *)
(***************************************************************************)
RequiredField(route) == IF route = "generate" THEN "prompt" ELSE "text"

Received(r) == req[r].route # "none"

FieldOf(r) == Prop(req[r].body, RequiredField(req[r].route))

HasField(r) == FieldOf(r).type = "string" /\ FieldOf(r).str # ""

\* the upstream answered the request's outbound call with a 2xx status
Answered2xx(r) ==
  /\ pc[r] = "done"
  /\ up[r].kind = "http"
  /\ up[r].status >= 200 /\ up[r].status < 300

IsInteger(j) == j.type = "number" /\ j.num % 1000 = 0

\* C1: a POST to /summarize, /detect-ai or /generate whose body lacks the
\* required field, or carries it as an empty string, is answered with 400 and
\* a JSON error body, and no outbound call is issued for it.
C1_MissingFieldRejected ==
  \A r \in Reqs :
    (Received(r) /\ FieldOf(r) \in {Undefined, JStr("")})
      => /\ pc[r] = "done"
         /\ res[r].status = 400
         /\ res[r].body.type = "object"
         /\ Prop(res[r].body, "error").type = "string"
         /\ outbound[r] = <<>>
         /\ up[r].kind = "none"

C1_Witness ==
  \E r \in Reqs :
    /\ req[r].route = "generate"
    /\ FieldOf(r) = JStr("")
    /\ res[r].status = 400

\* C2: a POST to /summarize with a non-empty text and an integer modelIndex
\* below 0 or at or above the length of SUMMARIZATION_MODELS is answered with
\* 400 and no outbound call is issued; with modelIndex omitted the call goes to
\* the first model of the table, which the 200 response names.
C2_InvalidModelIndexRejected ==
  \A r \in Reqs :
    (req[r].route = "summarize" /\ HasField(r))
      => /\ (/\ IsInteger(Prop(req[r].body, "modelIndex"))
             /\ \/ Prop(req[r].body, "modelIndex").num < 0
                \/ Prop(req[r].body, "modelIndex").num >= 1000 * Len(SUMMARIZATION_MODELS))
              => /\ pc[r] = "done"
                 /\ res[r].status = 400
                 /\ outbound[r] = <<>>
         /\ Prop(req[r].body, "modelIndex") = Undefined
              => /\ Len(outbound[r]) = 1
                 /\ outbound[r][1].url = HuggingFaceUrl(SUMMARIZATION_MODELS[1])
                 /\ res[r].status = 200
                      => Prop(res[r].body, "model") = JStr(SUMMARIZATION_MODELS[1])

C2_Witness ==
  \E r \in Reqs :
    /\ req[r].route = "summarize"
    /\ HasField(r)
    /\ Prop(req[r].body, "modelIndex") = JInt(Len(SUMMARIZATION_MODELS))
    /\ res[r].status = 400

ClaimedSummary(data) ==
  LET first == IF data.type = "array" /\ Len(data.items) > 0 THEN data.items[1] ELSE Undefined
      field(k) == IF first.type = "object" THEN Prop(first, k) ELSE Undefined
  IN  IF field("summary_text").type = "string" /\ field("summary_text").str # ""
      THEN field("summary_text")
      ELSE IF field("generated_text").type = "string" /\ field("generated_text").str # ""
           THEN field("generated_text")
           ELSE JStr(Stringify(data))

\* C4 as stated: every 2xx upstream response to a valid /summarize request,
\* whatever its shape, is answered with 200 and {model, summary}, the summary
\* being the first element's summary_text, else its generated_text, else the
\* JSON text of the whole upstream body; never with an error.
C4_Claim ==
  \A r \in Reqs :
    (req[r].route = "summarize" /\ Answered2xx(r))
      => /\ res[r].status = 200
         /\ Prop(res[r].body, "model").type = "string"
         /\ Prop(res[r].body, "summary") = ClaimedSummary(up[r].data)

\* a detector label in the sense of the claims C5 and C6
LabelContains(entry, word) == Includes(ToLowerCase(Prop(entry, "label").str), word)

\* the {label, score} pairs of a response that is a list of pairs, or one pair
PairsOf(data) == IF data.type = "array" THEN data.items ELSE <<data>>

IsListOfPairs(data) ==
  /\ data.type \in {"array", "object"}
  /\ Len(PairsOf(data)) > 0
  /\ \A i \in 1..Len(PairsOf(data)) :
       /\ PairsOf(data)[i].type = "object"
       /\ Prop(PairsOf(data)[i], "label").type = "string"
       /\ Prop(PairsOf(data)[i], "score").type = "number"

\* the response is a list whose first element is a list of pairs
IsNestedList(data) ==
  /\ data.type = "array"
  /\ Len(data.items) > 0
  /\ data.items[1].type = "array"

ScoreOf(entry) == Prop(entry, "score").num

ConfidenceOf(r) == Prop(res[r].body, "confidence")

VerdictOf(r) == Prop(res[r].body, "verdict")

\* round(score x 100) and the verdict thresholded at 0.5, score in thousandths
AnswersScore(r, score) ==
  /\ res[r].status = 200
  /\ ConfidenceOf(r) = JInt((score + 5) \div 10)
  /\ VerdictOf(r) = JStr(IF score > 500 THEN "Likely AI-generated" ELSE "Likely human-written")

FirstAi(items) ==
  CHOOSE i \in 1..Len(items) :
    /\ LabelContains(items[i], "ai")
    /\ \A m \in 1..(i - 1) : ~LabelContains(items[m], "ai")

IsJsonTyped(r) ==
  /\ up[r].kind = "http"
  /\ up[r].contentType.type = "string"
  /\ Includes(up[r].contentType.str, "application/json")

IsImageTyped(r) ==
  /\ up[r].kind = "http"
  /\ up[r].contentType.type = "string"
  /\ Includes(up[r].contentType.str, "image/")

\* the error field of the decoded upstream body, undefined when the body does
\* not decode to an object
DecodedError(r) ==
  IF JSONparse(up[r].data.bytes).type = "object"
  THEN Prop(JSONparse(up[r].data.bytes), "error")
  ELSE Undefined

\* C7 as stated: a valid /generate request whose upstream response has a JSON
\* content-type is answered with 503 and a status "loading" body when the
\* decoded error text contains "loading", and otherwise with 500 and the
\* provider's error message (where the provider gave one: a non-empty string,
\* a list or an object); it is never answered with 200, whatever the upstream
\* status and the type of the decoded error field.
C7_Claim ==
  \A r \in Reqs :
    (req[r].route = "generate" /\ pc[r] = "done" /\ IsJsonTyped(r))
      => /\ res[r].status \in {500, 503}
         /\ res[r].body.type = "object"
         /\ (DecodedError(r).type = "string" /\ Includes(DecodedError(r).str, "loading"))
              => /\ res[r].status = 503
                 /\ Prop(res[r].body, "status") = JStr("loading")
         /\ (/\ ~(DecodedError(r).type = "string" /\ Includes(DecodedError(r).str, "loading"))
             /\ \/ DecodedError(r).type = "string" /\ DecodedError(r).str # ""
                \/ DecodedError(r).type \in {"array", "object"})
              => /\ res[r].status = 500
                 /\ Prop(res[r].body, "error") = DecodedError(r)

\* C8 as stated: a valid /generate request whose upstream response has an image
\* content-type is answered with 200, exactly the upstream bytes and the
\* upstream Content-Type; a 200 binary response is produced only when the
\* upstream content-type indicates an image (or is absent, and then the
\* response is typed image/png).
C8_Claim ==
  \A r \in Reqs :
    (req[r].route = "generate" /\ pc[r] = "done" /\ up[r].kind = "http")
      => /\ IsImageTyped(r)
              => /\ res[r].status = 200
                 /\ res[r].body = JBytes(up[r].data.bytes)
                 /\ res[r].contentType = up[r].contentType.str
         /\ (res[r].status = 200 /\ res[r].body.type = "bytes")
              => \/ IsImageTyped(r)
                 \/ up[r].contentType = Undefined /\ res[r].contentType = "image/png"

\* C9 as stated: when the outbound call fails in transport or the upstream
\* answers with a non-2xx status, the response is an error with status 500, or
\* 503 for the loading condition, and a JSON body, never a 200; at most one
\* outbound call is issued per request.
C9_Claim ==
  \A r \in Reqs :
    /\ Len(outbound[r]) <= 1
    /\ (/\ pc[r] = "done"
        /\ \/ up[r].kind = "transport"
           \/ up[r].kind = "http" /\ ~(up[r].status >= 200 /\ up[r].status < 300))
         => /\ res[r].status \in {500, 503}
            /\ res[r].body.type = "object"

\* C10: the response to a request is a function of its body and of the upstream
\* response to its own outbound call: in every interleaving of concurrently
\* handled requests, two requests with the same route and body whose outbound
\* calls were answered alike have been answered alike.
C10_ResponseOfOwnExchangeOnly ==
  \A r1, r2 \in Reqs :
    (/\ pc[r1] = "done"
     /\ pc[r2] = "done"
     /\ req[r1] = req[r2]
     /\ up[r1] = up[r2])
      => res[r1] = res[r2]

C10_Witness ==
  \E r1, r2, r3 \in Reqs :
    /\ r1 # r2
    /\ pc[r1] = "done" /\ pc[r2] = "done" /\ pc[r3] = "done"
    /\ req[r1].route = "summarize"
    /\ req[r1] = req[r2]
    /\ up[r1] = up[r2]
    /\ up[r1].kind = "http"
    /\ res[r1].status = 200
    /\ res[r2] = res[r1]
    /\ req[r3].route = "summarize"
    /\ req[r3] # req[r1]
    /\ res[r3].status = 200

====
